---- MODULE Spec2Model ----
(***************************************************************************)
(* A model of chainer/datasets/mnist.py: get_mnist and its helpers          *)
(* (_retrieve_mnist, _make_npz, _preprocess_mnist), run by a Python 3       *)
(* interpreter, together with the two file stores they work on: the         *)
(* download cache (chainer.dataset.download.cached_download) and the        *)
(* dataset directory holding train.npz and test.npz                         *)
(* (chainer.dataset.download.cached_create_file).                           *)
(*                                                                         *)
(* Bytes are integers 0..255, a file is the sequence of its (decompressed)  *)
(* bytes, an array is [shape, data] with data in row-major order, and a     *)
(* float32 is [m, e] standing for m * 2^e with m = 0 or 2^23 <= m < 2^24.   *)
(***************************************************************************)
EXTENDS Integers, Sequences, FiniteSets, TLC

(* ------------------------------ bounds -------------------------------- *)

\* The largest number of records of a served stream or of a cached split.
MaxN == 2
\* The number of get_mnist calls of a run.
MaxCalls == 2

(* ------------------------- program constants --------------------------- *)

\* Bytes of one image record: the 784 of numpy.empty((N, 784)) and range(784).
RecordLen == 784
\* The side of an image: reshape(-1, 28, 28).
Side == 28
\* The divisor of the scale: scale / 255.
PixelMax == 255

\* An absent file, Python's None, and a failed network fetch.
NoFile == [kind |-> "NoFile"]
None == [kind |-> "None"]
NetFail == [kind |-> "NetFail"]
\* A downloaded file with its decompressed bytes.
File(bytes) == [kind |-> "file", bytes |-> bytes]

Names == {"train.npz", "test.npz"}
\* The image and label URLs of lines 68-69 and 74-75.
XUrl(name) ==
    IF name = "train.npz" THEN "http://yann.lecun.com/exdb/mnist/train-images-idx3-ubyte.gz"
    ELSE "http://yann.lecun.com/exdb/mnist/t10k-images-idx3-ubyte.gz"
YUrl(name) ==
    IF name = "train.npz" THEN "http://yann.lecun.com/exdb/mnist/train-labels-idx1-ubyte.gz"
    ELSE "http://yann.lecun.com/exdb/mnist/t10k-labels-idx1-ubyte.gz"
Urls == {XUrl(n) : n \in Names} \cup {YUrl(n) : n \in Names}

(* ------------------------------ helpers -------------------------------- *)

RECURSIVE Pow2(_)
Pow2(n) == IF n <= 0 THEN 1 ELSE 2 * Pow2(n - 1)

Min(a, b) == IF a <= b THEN a ELSE b

RECURSIVE Prod(_)
\* The product of a sequence of integers.
Prod(s) == IF s = <<>> THEN 1 ELSE Head(s) * Prod(Tail(s))

\* file.read(n) at offset pos (bytes already read): at most n bytes, fewer at
\* the end of the file.
Read(f, pos, n) == SubSeq(f, pos + 1, Min(pos + n, Len(f)))

(* --------------------------- struct.unpack ----------------------------- *)

\* Python values of the two argument types the parser hands to struct.unpack.
PyBytes(b) == [type |-> "bytes", data |-> b]
PyStr(b) == [type |-> "str", data |-> b]

\* The literal '>i' of lines 94 and 95, a str: the characters '>' and 'i'.
FmtLiteral == PyStr(<<62, 105>>)

\* Format characters of the struct module, as byte values.
SpaceChars == {9, 10, 11, 12, 13, 32}
DigitChars == 48 .. 57
\* '<' '>' '!' '=' '@'
OrderChars == {60, 62, 33, 61, 64}
\* x b B c s p h H i I l L q Q ? e f d
StdCodes == {120, 98, 66, 99, 115, 112, 104, 72, 105, 73, 108, 76, 113, 81, 63, 101, 102, 100}
\* the native table adds n N P
NativeCodes == StdCodes \cup {110, 78, 80}

RECURSIVE FormatBodyOk(_, _, _)
\* Whether fmt from position i on is a sequence of [count]code items and
\* whitespace, every code in table.
FormatBodyOk(fmt, i, table) ==
    IF i > Len(fmt) THEN TRUE
    ELSE IF fmt[i] \in SpaceChars THEN FormatBodyOk(fmt, i + 1, table)
    ELSE IF fmt[i] \in DigitChars
         THEN LET RECURSIVE SkipDigits(_)
                  SkipDigits(j) == IF j <= Len(fmt) /\ fmt[j] \in DigitChars
                                   THEN SkipDigits(j + 1) ELSE j
                  j == SkipDigits(i)
              IN  j <= Len(fmt) /\ fmt[j] \in table /\ FormatBodyOk(fmt, j + 1, table)
    ELSE fmt[i] \in table /\ FormatBodyOk(fmt, i + 1, table)

\* Whether the struct module compiles fmt (a byte sequence) as a format.
ValidFormat(fmt) ==
    /\ \A k \in 1 .. Len(fmt) : fmt[k] # 0
    /\ IF Len(fmt) > 0 /\ fmt[1] \in OrderChars
       THEN FormatBodyOk(fmt, 2, IF fmt[1] = 64 THEN NativeCodes ELSE StdCodes)
       ELSE FormatBodyOk(fmt, 1, NativeCodes)

\* The value of four bytes as a signed big-endian 32-bit integer ('>i').
BEInt32(b) ==
    (IF b[1] >= 128 THEN b[1] - 256 ELSE b[1]) * 16777216 + b[2] * 65536 + b[3] * 256 + b[4]

\* struct.unpack(format, buffer): the format is compiled first (struct.error
\* when it is no format), then the buffer must be bytes-like (TypeError for a
\* str) of the format's size.  Of the formats only '>i' is decoded.
StructUnpack(format, buffer) ==
    IF ~ValidFormat(format.data) THEN [exc |-> "struct.error"]
    ELSE IF buffer.type # "bytes" THEN [exc |-> "TypeError"]
    ELSE IF format.data # <<62, 105>> \/ Len(buffer.data) # 4 THEN [exc |-> "struct.error"]
    ELSE [exc |-> "none", value |-> [tag |-> "tuple", items |-> <<BEInt32(buffer.data)>>]]

(* ------------------------------ float32 -------------------------------- *)

F32Zero == [m |-> 0, e |-> 0]

\* Round-to-nearest-even of a 24-bit quotient q with remainder r of divisor d.
F32Round(q, r, d, e) ==
    LET up == 2 * r > d \/ (2 * r = d /\ q % 2 = 1)
        m == IF up THEN q + 1 ELSE q
    IN  IF m = 16777216 THEN [m |-> 8388608, e |-> e + 1] ELSE [m |-> m, e |-> e]

\* astype(numpy.float32) of one uint8 element: exact, the mantissa brought
\* into 2^23 .. 2^24 - 1 (2^23 = 8388608).
F32OfByte(p) ==
    IF p = 0 THEN F32Zero
    ELSE IF p >= 128 THEN [m |-> p * 65536, e |-> -16]
    ELSE IF p >= 64 THEN [m |-> p * 131072, e |-> -17]
    ELSE IF p >= 32 THEN [m |-> p * 262144, e |-> -18]
    ELSE IF p >= 16 THEN [m |-> p * 524288, e |-> -19]
    ELSE IF p >= 8 THEN [m |-> p * 1048576, e |-> -20]
    ELSE IF p >= 4 THEN [m |-> p * 2097152, e |-> -21]
    ELSE IF p >= 2 THEN [m |-> p * 4194304, e |-> -22]
    ELSE [m |-> 8388608, e |-> -23]

RECURSIVE DivBits(_, _, _, _)
\* Long division: quotient bits of (q + r/d) * 2^e until q has 24 bits.
DivBits(q, r, e, d) ==
    IF q >= 8388608 THEN [q |-> q, r |-> r, e |-> e]
    ELSE DivBits(2 * q + (2 * r) \div d, (2 * r) % d, e - 1, d)

\* The float32 the in-place multiply uses for the Python float scale / 255.
\* (scale a positive integer): the quotient rounded to 24 bits.  The double
\* in between changes nothing: the binary expansion of n/255 has period 8, so
\* its 53-bit rounding is never a tie of the 24-bit rounding.
ScaleFactor(scale) ==
    LET b == DivBits(scale \div PixelMax, scale % PixelMax, 0, PixelMax)
    IN  F32Round(b.q, b.r, PixelMax, b.e)

\* float32 product a * b, rounded to nearest even, for a an exact byte value
\* (at most 8 significant bits: a.m is a multiple of 2^16).  The 32-bit
\* product of the significands is kept in two halves, H * 2^12 + L, and has
\* 32 bits (8 dropped) when H >= 2^19 and 31 bits (7 dropped) otherwise.
F32Mul(a, b) ==
    IF a.m = 0 \/ b.m = 0 THEN F32Zero
    ELSE LET pa == a.m \div 65536
             lo == pa * (b.m % 4096)
             H == pa * (b.m \div 4096) + lo \div 4096
             L == lo % 4096
         IN  IF H >= 524288
             THEN F32Round(H * 16 + L \div 256, L % 256, 256, a.e + b.e + 24)
             ELSE F32Round(H * 32 + L \div 128, L % 128, 128, a.e + b.e + 23)

\* Whether the float32 v equals the integer n >= 1.
F32EqInt(v, n) ==
    IF v.e >= 0 THEN v.e <= 6 /\ v.m * Pow2(v.e) = n
    ELSE v.e >= -30 /\ v.m % Pow2(-v.e) = 0 /\ v.m \div Pow2(-v.e) = n

\* Whether the float32 v is at most the integer n >= 1.
F32LeqInt(v, n) ==
    IF v.e >= 0 THEN v.e <= 6 /\ v.m * Pow2(v.e) <= n
    ELSE v.e < -30
         \/ (v.m \div Pow2(-v.e)) + (IF v.m % Pow2(-v.e) = 0 THEN 0 ELSE 1) <= n

(* ------------------------------- arrays -------------------------------- *)

Array(dtype, shape, data) == [dtype |-> dtype, shape |-> shape, data |-> data]

\* ndarray.reshape(newshape) with at most one -1: the data keeps its
\* row-major order, the -1 becomes size / (product of the other dimensions).
Reshape(a, newshape) ==
    LET size == Len(a.data)
        known == Prod(SelectSeq(newshape, LAMBDA d : d # -1))
    IN  IF known = 0 \/ size % known # 0 THEN [exc |-> "ValueError"]
        ELSE [exc |-> "none",
              value |-> Array(a.dtype,
                              [k \in 1 .. Len(newshape) |->
                                  IF newshape[k] = -1 THEN size \div known ELSE newshape[k]],
                              a.data)]

\* images.astype(numpy.float32)
AsTypeFloat32(a) == Array("float32", a.shape, [k \in 1 .. Len(a.data) |-> F32OfByte(a.data[k])])

\* raw['y'].astype(numpy.int32): uint8 values as int32
AsTypeInt32(a) == Array("int32", a.shape, a.data)

\* images *= factor, in place and in float32
IMul(a, factor) == Array(a.dtype, a.shape, [k \in 1 .. Len(a.data) |-> F32Mul(a.data[k], factor)])

\* TupleDataset(images, labels): example i is (images[i], labels[i]).
TupleDataset(images, labels) == [tag |-> "TupleDataset", datasets |-> <<images, labels>>]

(* -------------------------- _preprocess_mnist --------------------------- *)

Raise(exc, line) == [exc |-> exc, line |-> line, value |-> None]
Return(value) == [exc |-> "none", line |-> 0, value |-> value]

\* Lines 57-64: the cast, the scaling and the pairing with the labels.
ScaleAndPair(raw, images, withlabel, scale) ==
    LET scaled == IMul(AsTypeFloat32(images), ScaleFactor(scale))
    IN  IF withlabel
        THEN Return(TupleDataset(scaled, AsTypeInt32(raw.y)))
        ELSE Return(scaled)

\* Mutants of _preprocess_mnist: the channel axis of ndim == 3 forgotten;
\* the final elif dropped, so that any other ndim is kept flat; and the final
\* elif testing only ndim > 3.
PreprocessNoChannel(raw, withlabel, ndim, scale) ==
    IF ndim = 2 \/ ndim = 3
    THEN LET r == Reshape(raw.x, <<-1, Side, Side>>)
         IN  IF r.exc # "none" THEN Raise(r.exc, 52)
             ELSE ScaleAndPair(raw, r.value, withlabel, scale)
    ELSE IF ndim # 1 THEN Raise("ValueError", 56)
    ELSE ScaleAndPair(raw, raw.x, withlabel, scale)

PreprocessNoCheck(raw, withlabel, ndim, scale) ==
    IF ndim = 2
    THEN LET r == Reshape(raw.x, <<-1, Side, Side>>)
         IN  IF r.exc # "none" THEN Raise(r.exc, 52)
             ELSE ScaleAndPair(raw, r.value, withlabel, scale)
    ELSE IF ndim = 3
    THEN LET r == Reshape(raw.x, <<-1, 1, Side, Side>>)
         IN  IF r.exc # "none" THEN Raise(r.exc, 54)
             ELSE ScaleAndPair(raw, r.value, withlabel, scale)
    ELSE ScaleAndPair(raw, raw.x, withlabel, scale)

PreprocessUpperCheck(raw, withlabel, ndim, scale) ==
    IF ndim = 2
    THEN LET r == Reshape(raw.x, <<-1, Side, Side>>)
         IN  IF r.exc # "none" THEN Raise(r.exc, 52)
             ELSE ScaleAndPair(raw, r.value, withlabel, scale)
    ELSE IF ndim = 3
    THEN LET r == Reshape(raw.x, <<-1, 1, Side, Side>>)
         IN  IF r.exc # "none" THEN Raise(r.exc, 54)
             ELSE ScaleAndPair(raw, r.value, withlabel, scale)
    ELSE IF ndim > 3 THEN Raise("ValueError", 56)
    ELSE ScaleAndPair(raw, raw.x, withlabel, scale)

_preprocess_mnist(raw, withlabel, ndim, scale) ==
    IF ndim = 2
    THEN LET r == Reshape(raw.x, <<-1, Side, Side>>)
         IN  IF r.exc # "none" THEN Raise(r.exc, 52)
             ELSE ScaleAndPair(raw, r.value, withlabel, scale)
    ELSE IF ndim = 3
    THEN LET r == Reshape(raw.x, <<-1, 1, Side, Side>>)
         IN  IF r.exc # "none" THEN Raise(r.exc, 54)
             ELSE ScaleAndPair(raw, r.value, withlabel, scale)
    ELSE IF ndim # 1 THEN Raise("ValueError", 56)
    ELSE ScaleAndPair(raw, raw.x, withlabel, scale)

(* ------------------------ files and the network ------------------------ *)

\* Pixel j of image i, and label i, of the test data of variant v.
Pixel(v, i, j) == (101 * v + 37 * i + j) % 256
Label(v, i) == (3 * v + 7 * i) % 10

\* The record-count field of a stream declaring n < 256 records.
CountField(n) == <<0, 0, 0, n>>

\* A decompressed idx3 image file: magic, count field, the two dimension
\* fields, then nrec records of RecordLen bytes.
ImageStream(count, nrec, v) ==
    <<0, 0, 8, 3>> \o count \o <<0, 0, 0, Side, 0, 0, 0, Side>>
    \o [k \in 1 .. nrec * RecordLen |-> Pixel(v, (k - 1) \div RecordLen, (k - 1) % RecordLen)]

\* A decompressed idx1 label file: magic, count field, then nlab label bytes.
LabelStream(count, nlab, v) ==
    <<0, 0, 8, 1>> \o count \o [k \in 1 .. nlab |-> Label(v, k - 1)]

\* What the image URL of a split may serve: a well-formed file of MaxN
\* records, the same cut inside its payload, headers declaring 100 records
\* and a count with the top bit set, a count field that reads as the struct
\* format 'xx  ', and a file cut inside its header.
ServedImages ==
    {ImageStream(CountField(MaxN), MaxN, 0),
     ImageStream(CountField(MaxN), MaxN - 1, 0),
     ImageStream(CountField(100), 0, 0),
     ImageStream(<<128, 0, 0, 1>>, 0, 0),
     ImageStream(<<120, 120, 32, 32>>, 0, 0),
     <<0, 0, 8, 3, 0, 0>>}

\* What the label URL of a split may serve: a well-formed file of MaxN
\* labels and a header declaring 99 records.
ServedLabels ==
    {LabelStream(CountField(MaxN), MaxN, 0),
     LabelStream(CountField(99), 0, 0)}

\* A stream pair as section 4.2 of the format requires it: both headers
\* whole, the same count N in both, N * RecordLen image bytes and N labels.
Unsigned16(b, k) == b[k] * 256 + b[k + 1]
WellFormedPair(fx, fy) ==
    /\ Len(fx) >= 16 /\ Len(fy) >= 8
    /\ SubSeq(fx, 5, 8) = SubSeq(fy, 5, 8)
    /\ Unsigned16(fx, 5) = 0
    /\ Len(fx) = 16 + Unsigned16(fx, 7) * RecordLen
    /\ Len(fy) = 8 + Unsigned16(fx, 7)

\* The split an npz file of n records holds: x of shape (n, 784), y of shape (n,).
RawSplit(n, v) ==
    [x |-> Array("uint8", <<n, RecordLen>>,
                 [k \in 1 .. n * RecordLen |-> Pixel(v, (k - 1) \div RecordLen, (k - 1) % RecordLen)]),
     y |-> Array("uint8", <<n>>, [k \in 1 .. n |-> Label(v, k - 1)])]

\* The npz files a dataset directory may hold when the process starts.
StoredSplits == {RawSplit(n, 1) : n \in {0, MaxN}}

\* download.cached_download(url): the file of the download cache, fetched
\* from the network (served: a file, or NetFail) when the cache has none.
CachedDownload(dl, url, served) ==
    IF dl[url] # NoFile THEN [exc |-> "none", dl |-> dl, fetched |-> {}]
    ELSE IF served = NetFail THEN [exc |-> "IOError", dl |-> dl, fetched |-> {}]
    ELSE [exc |-> "none", dl |-> [dl EXCEPT ![url] = served], fetched |-> {url}]

\* numpy.savez_compressed(path, x=x, y=y) and numpy.load(path): the archive
\* keeps each array's dtype, shape and bytes under its name.
SavezCompressed(fs, path, x, y) == [fs EXCEPT ![path] = [x |-> x, y |-> y]]
NumpyLoad(fs, path) == Return(fs[path])

(* ------------------------------ _make_npz ------------------------------- *)

\* Lines 102-105: N labels and N * 784 pixels read a byte at a time, label i
\* before image i; ord() of an empty read is a TypeError.
ReadLoop(fx, fy, N) ==
    LET px == Min(16, Len(fx))
        py == Min(8, Len(fy))
        short == {i \in 0 .. N - 1 :
                     Len(fy) < py + i + 1 \/ Len(fx) < px + (i + 1) * RecordLen}
    IN  IF short # {}
        THEN LET i == CHOOSE k \in short : \A l \in short : k <= l
             IN  IF Len(fy) < py + i + 1 THEN Raise("TypeError", 103)
                 ELSE Raise("TypeError", 105)
        ELSE Return([x |-> Array("uint8", <<N, RecordLen>>, Read(fx, px, N * RecordLen)),
                     y |-> Array("uint8", <<N>>, Read(fy, py, N))])

\* Lines 91-105 on the two opened files.  The count of each is
\* struct.unpack(<the four bytes read>, '>i'): the bytes read are the format
\* and the str '>i' is the buffer.  numpy.empty((N, 784)) needs an int N.
ParseStreams(fx, fy) ==
    LET nx == StructUnpack(PyBytes(Read(fx, 4, 4)), FmtLiteral)
    IN  IF nx.exc # "none" THEN Raise(nx.exc, 94)
        ELSE LET ny == StructUnpack(PyBytes(Read(fy, 4, 4)), FmtLiteral)
             IN  IF ny.exc # "none" THEN Raise(ny.exc, 95)
                 ELSE IF nx.value # ny.value THEN Raise("RuntimeError", 96)
                 ELSE IF nx.value.tag # "int" THEN Raise("TypeError", 99)
                 ELSE ReadLoop(fx, fy, nx.value.v)

\* The outcome of a retrieval: what it raises or returns, the two file
\* stores after it, the URLs it fetched from the network, whether the parser
\* (line 91 on) ran and what line 94 decoded, and whether it wrote path.
Outcome(r, fs, dl, fetched, parsed, count, wrote) ==
    [exc |-> r.exc, line |-> r.line, value |-> r.value, fs |-> fs, dl |-> dl,
     fetched |-> fetched, parsed |-> parsed, count |-> count, wrote |-> wrote]

\* Mutant of _make_npz: the archive is written whether or not the parse went
\* through (the save in a finally clause), empty when it did not.
MakeNpzSaveAlways(path, urls, fs, dl, servedX, servedY) ==
    LET dx == CachedDownload(dl, urls[1], servedX)
    IN  IF dx.exc # "none"
        THEN Outcome(Raise(dx.exc, 88), fs, dx.dl, dx.fetched, FALSE, None, FALSE)
        ELSE LET dy == CachedDownload(dx.dl, urls[2], servedY)
                 got == dx.fetched \cup dy.fetched
             IN  IF dy.exc # "none"
                 THEN Outcome(Raise(dy.exc, 89), fs, dy.dl, got, FALSE, None, FALSE)
                 ELSE LET fx == dy.dl[urls[1]].bytes
                          fy == dy.dl[urls[2]].bytes
                          p == ParseStreams(fx, fy)
                          count == [field |-> Read(fx, 4, 4),
                                    n |-> StructUnpack(PyBytes(Read(fx, 4, 4)), FmtLiteral)]
                          x == IF p.exc # "none" THEN Array("uint8", <<0, RecordLen>>, <<>>)
                               ELSE p.value.x
                          y == IF p.exc # "none" THEN Array("uint8", <<0>>, <<>>)
                               ELSE p.value.y
                      IN  Outcome(p, SavezCompressed(fs, path, x, y), dy.dl, got, TRUE, count, TRUE)

_make_npz(path, urls, fs, dl, servedX, servedY) ==
    LET dx == CachedDownload(dl, urls[1], servedX)
    IN  IF dx.exc # "none"
        THEN Outcome(Raise(dx.exc, 88), fs, dx.dl, dx.fetched, FALSE, None, FALSE)
        ELSE LET dy == CachedDownload(dx.dl, urls[2], servedY)
                 got == dx.fetched \cup dy.fetched
             IN  IF dy.exc # "none"
                 THEN Outcome(Raise(dy.exc, 89), fs, dy.dl, got, FALSE, None, FALSE)
                 ELSE LET fx == dy.dl[urls[1]].bytes
                          fy == dy.dl[urls[2]].bytes
                          p == ParseStreams(fx, fy)
                          count == [field |-> Read(fx, 4, 4),
                                    n |-> StructUnpack(PyBytes(Read(fx, 4, 4)), FmtLiteral)]
                      IN  IF p.exc # "none"
                          THEN Outcome(p, fs, dy.dl, got, TRUE, count, FALSE)
                          ELSE Outcome(p, SavezCompressed(fs, path, p.value.x, p.value.y),
                                       dy.dl, got, TRUE, count, TRUE)

(* --------------------------- _retrieve_mnist ---------------------------- *)

\* download.cached_create_file(path, creator, loader): the loader when path
\* exists, the creator otherwise; created and loaded are what creator(path)
\* and loader(path) come to, and only the one chosen is evaluated.
CachedCreateFile(path, fs, created, loaded) ==
    IF fs[path] # NoFile THEN loaded ELSE created

_retrieve_mnist(name, urls, fs, dl, servedX, servedY) ==
    LET creator(path) == _make_npz(path, urls, fs, dl, servedX, servedY)
        loader(path) == Outcome(NumpyLoad(fs, path), fs, dl, {}, FALSE, None, FALSE)
    IN  CachedCreateFile(name, fs, creator(name), loader(name))

(* ------------------------------ get_mnist ------------------------------- *)

VARIABLES
    cache,      \* the dataset directory: name -> the npz file, or NoFile
    dlcache,    \* the download cache: url -> the downloaded file, or NoFile
    pc,         \* "idle", or the line of get_mnist about to run
    args,       \* the arguments of the call: withlabel, ndim, scale
    train_raw, train, test_raw, test,   \* the locals of get_mnist
    result,     \* how the last call ended: None while none has
    calls,      \* calls made so far
    gate,       \* this call: name -> "none", or "hit" / "miss" of its cache gate
    fetched,    \* this call: the URLs fetched from the network
    parsed,     \* this call: the names whose parser ran
    okNow,      \* this call: name -> the raw split its pipeline ended well with
    prevOk,     \* the same of the call before
    parses,     \* name -> parser runs so far
    writes,     \* name -> writes of the npz file so far
    count       \* the count field and what line 94 made of it, last parser run

vars == <<cache, dlcache, pc, args, train_raw, train, test_raw, test, result, calls,
          gate, fetched, parsed, okNow, prevOk, parses, writes, count>>

NdimValid == {1, 2, 3}
\* The arguments the calls are made with: both values of withlabel, the valid
\* ndim and one on each side, and scales 1 (the default), 255 and 16711681.
WithLabels == BOOLEAN
Ndims == 0 .. 4
Scales == {1, 255, 16711681}

NoArgs == [withlabel |-> TRUE, ndim |-> 1, scale |-> 1]

Init ==
    /\ cache \in [Names -> {NoFile} \cup StoredSplits]
    /\ dlcache = [u \in Urls |-> NoFile]
    /\ pc = "idle"
    /\ args = NoArgs
    /\ train_raw = None /\ train = None /\ test_raw = None /\ test = None
    /\ result = None
    /\ calls = 0
    /\ gate = [n \in Names |-> "none"]
    /\ fetched = {}
    /\ parsed = {}
    /\ okNow = [n \in Names |-> None]
    /\ prevOk = [n \in Names |-> None]
    /\ parses = [n \in Names |-> 0]
    /\ writes = [n \in Names |-> 0]
    /\ count = None

\* get_mnist(withlabel, ndim, scale) is entered.
Call(withlabel, ndim, scale) ==
    /\ pc = "idle"
    /\ calls < MaxCalls
    /\ calls' = calls + 1
    /\ pc' = "L42"
    /\ args' = [withlabel |-> withlabel, ndim |-> ndim, scale |-> scale]
    /\ result' = None
    /\ gate' = [n \in Names |-> "none"]
    /\ fetched' = {}
    /\ parsed' = {}
    /\ prevOk' = okNow
    /\ okNow' = [n \in Names |-> None]
    /\ UNCHANGED <<cache, dlcache, train_raw, train, test_raw, test, parses, writes, count>>

\* An exception leaves get_mnist: its arguments and locals are gone.
Raised(r) ==
    /\ pc' = "idle"
    /\ args' = NoArgs
    /\ result' = [status |-> "error", exc |-> r.exc, line |-> r.line]
    /\ train_raw' = None /\ train' = None /\ test_raw' = None /\ test' = None

\* What a retrieval of name leaves in the file stores and in the history.
Retrieved(name, r) ==
    /\ cache' = r.fs
    /\ dlcache' = r.dl
    /\ gate' = [gate EXCEPT ![name] = IF cache[name] # NoFile THEN "hit" ELSE "miss"]
    /\ fetched' = fetched \cup r.fetched
    /\ parsed' = IF r.parsed THEN parsed \cup {name} ELSE parsed
    /\ parses' = [parses EXCEPT ![name] = @ + (IF r.parsed THEN 1 ELSE 0)]
    /\ writes' = [writes EXCEPT ![name] = @ + (IF r.wrote THEN 1 ELSE 0)]
    /\ count' = IF r.parsed THEN r.count ELSE count

\* What the network may answer when name's retrieval asks for url: it is asked
\* only when neither the npz file nor the downloaded file is there.
Served(name, url, streams) ==
    IF cache[name] = NoFile /\ dlcache[url] = NoFile
    THEN {File(b) : b \in streams} \cup {NetFail}
    ELSE {NetFail}

\* Line 42 (and 67-70): train_raw = _retrieve_mnist_training()
_retrieve_mnist_training ==
    /\ pc = "L42"
    /\ \E sx \in Served("train.npz", XUrl("train.npz"), ServedImages),
          sy \in Served("train.npz", YUrl("train.npz"), ServedLabels) :
          LET name == "train.npz"
              r == _retrieve_mnist(name, <<XUrl(name), YUrl(name)>>, cache, dlcache, sx, sy)
          IN  /\ Retrieved(name, r)
              /\ IF r.exc # "none"
                 THEN Raised(r)
                 ELSE /\ train_raw' = r.value
                      /\ pc' = "L43"
                      /\ UNCHANGED <<args, train, test_raw, test, result>>
    /\ UNCHANGED <<calls, okNow, prevOk>>

\* Line 43: train = _preprocess_mnist(train_raw, withlabel, ndim, scale)
PreprocessTrain ==
    /\ pc = "L43"
    /\ LET r == _preprocess_mnist(train_raw, args.withlabel, args.ndim, args.scale)
       IN  IF r.exc # "none"
           THEN Raised(r) /\ UNCHANGED okNow
           ELSE /\ train' = r.value
                /\ pc' = "L44"
                /\ okNow' = [okNow EXCEPT !["train.npz"] = train_raw]
                /\ UNCHANGED <<args, train_raw, test_raw, test, result>>
    /\ UNCHANGED <<cache, dlcache, calls, gate, fetched, parsed, prevOk, parses,
                   writes, count>>

\* Line 44 (and 73-76): test_raw = _retrieve_mnist_test()
_retrieve_mnist_test ==
    /\ pc = "L44"
    /\ \E sx \in Served("test.npz", XUrl("test.npz"), ServedImages),
          sy \in Served("test.npz", YUrl("test.npz"), ServedLabels) :
          LET name == "test.npz"
              r == _retrieve_mnist(name, <<XUrl(name), YUrl(name)>>, cache, dlcache, sx, sy)
          IN  /\ Retrieved(name, r)
              /\ IF r.exc # "none"
                 THEN Raised(r)
                 ELSE /\ test_raw' = r.value
                      /\ pc' = "L45"
                      /\ UNCHANGED <<args, train_raw, train, test, result>>
    /\ UNCHANGED <<calls, okNow, prevOk>>

\* Line 45: test = _preprocess_mnist(test_raw, withlabel, ndim, scale)
PreprocessTest ==
    /\ pc = "L45"
    /\ LET r == _preprocess_mnist(test_raw, args.withlabel, args.ndim, args.scale)
       IN  IF r.exc # "none"
           THEN Raised(r) /\ UNCHANGED okNow
           ELSE /\ test' = r.value
                /\ pc' = "L46"
                /\ okNow' = [okNow EXCEPT !["test.npz"] = test_raw]
                /\ UNCHANGED <<args, train_raw, train, test_raw, result>>
    /\ UNCHANGED <<cache, dlcache, calls, gate, fetched, parsed, prevOk, parses,
                   writes, count>>

\* Line 46: return train, test
ReturnBoth ==
    /\ pc = "L46"
    /\ pc' = "idle"
    /\ result' = [status |-> "ok", exc |-> "none", line |-> 46]
    /\ args' = NoArgs
    /\ train_raw' = None /\ train' = None /\ test_raw' = None /\ test' = None
    /\ UNCHANGED <<cache, dlcache, calls, gate, fetched, parsed, okNow, prevOk,
                   parses, writes, count>>

get_mnist ==
    \/ \E w \in WithLabels, d \in Ndims, s \in Scales : Call(w, d, s)
    \/ _retrieve_mnist_training
    \/ PreprocessTrain
    \/ _retrieve_mnist_test
    \/ PreprocessTest
    \/ ReturnBoth

Next == get_mnist

Spec == Init /\ [][Next]_vars

(* ------------------------------ the claims ------------------------------ *)

Raw(name) == IF name = "train.npz" THEN train_raw ELSE test_raw
Out(name) == IF name = "train.npz" THEN train ELSE test
\* The image tensor and the label tensor of what _preprocess_mnist returned.
Images(out) == IF args.withlabel THEN out.datasets[1] ELSE out
Labels(out) == out.datasets[2]
\* The last call ended in an exception.
Failed == result # None /\ result.status = "error"
\* Both files of name are in the download cache.
Downloaded(name) == dlcache[XUrl(name)] # NoFile /\ dlcache[YUrl(name)] # NoFile
Fx(name) == dlcache[XUrl(name)].bytes
Fy(name) == dlcache[YUrl(name)].bytes
\* The normalized value of the raw pixel p under the float32 factor f.
Normalized(p, f) == F32Mul(F32OfByte(p), f)

\* raw holds the streams' records in stream order: row i of x is the i-th
\* RecordLen-byte record after the 16 header bytes of fx, y[i] the i-th byte
\* after the 8 header bytes of fy.
Aligned(raw, fx, fy) ==
    LET N == Unsigned16(fx, 7)
    IN  /\ raw.x.shape = <<N, RecordLen>>
        /\ raw.y.shape = <<N>>
        /\ \A i \in 0 .. N - 1 :
              /\ SubSeq(raw.x.data, i * RecordLen + 1, (i + 1) * RecordLen)
                    = SubSeq(fx, 16 + i * RecordLen + 1, 16 + (i + 1) * RecordLen)
              /\ raw.y.data[i + 1] = fy[8 + i + 1]

\* C1: index alignment end to end.  For a well-formed pair of streams declaring
\* the same count N, the retrieval that found no npz file does not fail, the
\* split it returns and the npz file it leaves hold record i of the image
\* stream at index i and byte i of the label stream at index i, and so do
\* the normalized images and labels, whatever the valid ndim.
C1_IndexAlignment ==
    \A name \in Names :
        (gate[name] = "miss" /\ Downloaded(name) /\ WellFormedPair(Fx(name), Fy(name))) =>
            /\ ~(Failed /\ result.line \in 86 .. 108)
            /\ cache[name] # NoFile
            /\ Aligned(cache[name], Fx(name), Fy(name))
            /\ Raw(name) # None => Aligned(Raw(name), Fx(name), Fy(name))
            /\ Out(name) # None =>
                  /\ LET f == ScaleFactor(args.scale)
                     IN  \A k \in 1 .. Unsigned16(Fx(name), 7) * RecordLen :
                             Images(Out(name)).data[k] = Normalized(Fx(name)[16 + k], f)
                  /\ args.withlabel =>
                        \A i \in 1 .. Unsigned16(Fx(name), 7) :
                            Labels(Out(name)).data[i] = Fy(name)[8 + i]

\* The shape section 4.4 gives the images of N records under ndim.
ShapeFor(ndim, N) ==
    IF ndim = 1 THEN <<N, RecordLen>>
    ELSE IF ndim = 2 THEN <<N, Side, Side>>
    ELSE <<N, 1, Side, Side>>

\* C2: for every raw split of N images and every ndim in {1, 2, 3}, the
\* normalized image tensor has N * 784 elements, the shape (N, 784),
\* (N, 28, 28) or (N, 1, 28, 28), and element k (row-major) is the normalized
\* element k of the raw images: no pixel and no image changes place.
C2_ShapeAndOrder ==
    \A name \in Names :
        Out(name) # None =>
            LET img == Images(Out(name))
                x == Raw(name).x
                N == x.shape[1]
                f == ScaleFactor(args.scale)
            IN  /\ args.ndim \in NdimValid
                /\ Len(img.data) = N * RecordLen
                /\ img.shape = ShapeFor(args.ndim, N)
                /\ Prod(img.shape) = N * RecordLen
                /\ \A k \in 1 .. N * RecordLen : img.data[k] = Normalized(x.data[k], f)

\* Witness of C2: a call with ndim = 3 has normalized both splits, the test
\* split of MaxN images into shape (MaxN, 1, 28, 28).
C2_Witness ==
    /\ pc = "L46"
    /\ args.ndim = 3
    /\ test # None
    /\ Images(test).shape = <<MaxN, 1, Side, Side>>

\* C3: for every ndim outside {1, 2, 3}, whatever withlabel and scale, the
\* normalization raises the configuration error (ValueError, line 56) and
\* hands back no tensor and no dataset.
C3_InvalidNdimRaises ==
    [][(pc \in {"L43", "L45"} /\ args.ndim \notin NdimValid) =>
          /\ pc' = "idle"
          /\ result' = [status |-> "error", exc |-> "ValueError", line |-> 56]
          /\ train' = None /\ test' = None]_vars

\* Witness of C3: a call has just ended in the ValueError of line 56.
C3_Witness ==
    /\ Failed
    /\ result.exc = "ValueError"
    /\ result.line = 56
    /\ train = None

\* C4: for every scale > 0 and every raw pixel p in 0..255 the normalized
\* pixel lies in [0, scale]; 255 becomes exactly scale and 0 exactly 0.
C4_PixelRange ==
    \A name \in Names :
        Out(name) # None =>
            LET img == Images(Out(name))
                x == Raw(name).x
            IN  \A k \in 1 .. Len(img.data) :
                    /\ img.data[k].m >= 0
                    /\ F32LeqInt(img.data[k], args.scale)
                    /\ x.data[k] = PixelMax => F32EqInt(img.data[k], args.scale)
                    /\ x.data[k] = 0 => img.data[k] = F32Zero

\* The retrieval of name was the last thing the call did, and it raised.
RetrievalFailed(name) ==
    /\ Failed
    /\ result.line \in 79 .. 108
    /\ gate[name] # "none"
    /\ name = "train.npz" => gate["test.npz"] = "none"

\* An earlier call downloaded both streams of name, a well-formed pair, and
\* so ran the parser on them (line 91 follows the downloads): this call has
\* come to the split and fetched neither of its files.
ParsedEarlier(name) ==
    /\ calls >= 2
    /\ gate[name] # "none"
    /\ Downloaded(name)
    /\ WellFormedPair(Fx(name), Fy(name))
    /\ fetched \cap {XUrl(name), YUrl(name)} = {}

CountsDiffer(fx, fy) ==
    Len(fx) >= 8 /\ Len(fy) >= 8 /\ SubSeq(fx, 5, 8) # SubSeq(fy, 5, 8)

\* C6: whenever the record counts of the two headers differ, the parser fails
\* with the consistency error (RuntimeError, line 96), before any payload is
\* read, and no split is produced or stored.
C6_MismatchIsConsistencyError ==
    \A name \in Names :
        (name \in parsed /\ CountsDiffer(Fx(name), Fy(name))) =>
            /\ Failed
            /\ result.exc = "RuntimeError"
            /\ result.line = 96
            /\ cache[name] = NoFile

\* C7: for a well-formed pair of streams, over the calls of a run the parser
\* runs at most once for a path and the npz file is written at most once: the
\* call that finds the file absent parses, stores the result and returns it,
\* and a call that finds it present loads it without parsing or writing.
C7_ParseAtMostOnce ==
    \A name \in Names :
        /\ gate[name] = "hit" => name \notin parsed
        /\ (Downloaded(name) /\ WellFormedPair(Fx(name), Fy(name))) =>
              /\ parses[name] <= 1
              /\ writes[name] <= 1
              /\ name \in parsed => (cache[name] # NoFile /\ writes[name] = 1)

\* Downloading and parsing that ended in a complete split: both headers whole,
\* equal counts, and every declared record and label there.
CompleteParse(fx, fy) ==
    /\ Len(fx) >= 16 /\ Len(fy) >= 8
    /\ SubSeq(fx, 5, 8) = SubSeq(fy, 5, 8)
    /\ Unsigned16(fx, 5) = 0
    /\ Len(fx) >= 16 + Unsigned16(fx, 7) * RecordLen
    /\ Len(fy) >= 8 + Unsigned16(fx, 7)

\* C8: no partial success.  An npz file appears at a path only where there
\* was none, in a step whose parser ran to the end on streams with equal
\* counts and all N * 784 + N payload bytes, which holds exactly those
\* records, and which did not raise; so a retrieval that raises (download
\* failure, cut header, cut payload, mismatch) leaves the path as it was.
\* And a retrieval that found no file and leaves none fails the whole call.
C8_NoPartialSuccess ==
    [][\A name \in Names :
          /\ cache'[name] # cache[name] =>
                /\ cache[name] = NoFile
                /\ name \in parsed'
                /\ pc' # "idle"
                /\ dlcache'[XUrl(name)] # NoFile /\ dlcache'[YUrl(name)] # NoFile
                /\ CompleteParse(dlcache'[XUrl(name)].bytes, dlcache'[YUrl(name)].bytes)
                /\ Aligned(cache'[name], dlcache'[XUrl(name)].bytes,
                           dlcache'[YUrl(name)].bytes)
          /\ (gate[name] = "none" /\ gate'[name] = "miss" /\ cache'[name] = NoFile) =>
                /\ pc' = "idle"
                /\ result'.status = "error"
                /\ result'.line \in 86 .. 108
                /\ train' = None /\ test' = None]_vars

\* Witness of C8: the parser of the train split has run and failed, and
\* train.npz is still absent.
C8_Witness ==
    /\ Failed
    /\ result.line \in 91 .. 105
    /\ "train.npz" \in parsed
    /\ cache["train.npz"] = NoFile

\* C9: the 4-byte count field b0 b1 b2 b3 is decoded as the unsigned
\* big-endian integer b0 * 2^24 + b1 * 2^16 + b2 * 2^8 + b3, never negative
\* (stated on the two 16-bit halves of the count).
C9_UnsignedBigEndianCount ==
    (count # None /\ Len(count.field) = 4) =>
        /\ count.n.exc = "none"
        /\ count.n.value.tag = "int"
        /\ count.n.value.v >= 0
        /\ count.n.value.v \div 65536 = Unsigned16(count.field, 1)
        /\ count.n.value.v % 65536 = Unsigned16(count.field, 3)

\* C10 as stated: during a call with an ndim outside {1, 2, 3} nothing is
\* downloaded, no parser runs and no npz file is created.
C10_NothingBeforeNdimError ==
    [][(pc # "idle" /\ args.ndim \notin NdimValid) =>
          /\ dlcache' = dlcache
          /\ parses' = parses
          /\ cache' = cache]_vars

\* C10 as amended: a call with an ndim outside {1, 2, 3} first retrieves the
\* train split, downloading and parsing if train.npz is absent; when that
\* retrieval returns, the normalizer raises the ValueError of line 56 with
\* the file stores untouched; the test split is never retrieved, so none of
\* its files is fetched or created, and no dataset is returned.
C10_NdimErrorAfterTrainRetrieval ==
    [][(pc # "idle" /\ args.ndim \notin NdimValid) =>
          /\ pc \in {"L42", "L43"}
          /\ pc = "L42" =>
                /\ pc' \in {"L43", "idle"}
                /\ gate'["train.npz"] # "none"
                /\ pc' = "idle" => (Failed' /\ result'.line \in 79 .. 108)
          /\ pc = "L43" =>
                /\ pc' = "idle"
                /\ result' = [status |-> "error", exc |-> "ValueError", line |-> 56]
                /\ UNCHANGED <<cache, dlcache, parses, writes, fetched>>
          /\ gate'["test.npz"] = "none"
          /\ cache'["test.npz"] = cache["test.npz"]
          /\ dlcache'[XUrl("test.npz")] = dlcache[XUrl("test.npz")]
          /\ dlcache'[YUrl("test.npz")] = dlcache[YUrl("test.npz")]]_vars

\* Witness of C10: a call ended in the ValueError after loading train.npz,
\* and never came to the test split.
C10_Witness ==
    /\ Failed
    /\ result.exc = "ValueError"
    /\ gate["train.npz"] = "hit"
    /\ gate["test.npz"] = "none"
    /\ fetched = {}

====
